---- MODULE Spec2Model ----
(***************************************************************************)
(* Queue & Booking engine of the salon backend (src/order_queue).          *)
(*                                                                         *)
(* The database is the shared state.  Every HTTP request is a thread that  *)
(* runs its view function; the views take no lock and open no transaction, *)
(* so each ORM query of a view (a SELECT, an INSERT, a Model.save() that   *)
(* UPDATEs the whole row from the in-memory copy) is one atomic step and   *)
(* the steps of different requests interleave freely.  A request slot      *)
(* holds the in-memory copy (`seen`) the view works on.                    *)
(***************************************************************************)
EXTENDS Integers, Sequences, FiniteSets, TLC

(* ------------------------------ bounds -------------------------------- *)
MaxBookings == 1
MaxClock == 1
NumRequests == 2
MaxUpdates == 1

(* ------------------------- users and catalogue ------------------------ *)
Customers == {"c1", "c2"}
StaffUsers == {"s1"}
Users == Customers \cup StaffUsers
NoUser == "none"

(* The customers who post bookings.                                        *)
Bookers == {"c1"}

Role(u) == IF u \in StaffUsers THEN "staff" ELSE "customer"

Services == {"cut", "dye"}
Service ==
  [s \in Services |->
     IF s = "cut" THEN [price |-> 10, duration |-> 30, loyalty_points |-> 1]
                  ELSE [price |-> 15, duration |-> 45, loyalty_points |-> 1]]

(* inventory: the products and the ServiceProduct rows (quantity_used of a  *)
(* product in one unit of a service).                                      *)
Products == {"color"}
InitialStock == 5
service_products ==
  [s \in Services |->
     IF s = "dye" THEN {[product |-> "color", quantity_used |-> 1]} ELSE {}]

STATUS_CHOICES == {"waiting", "in_progress", "completed", "cancelled", "no_show"}

NoTime == -1
NoRow == [absent |-> TRUE]

(* The `services` lists a client posts to bookings/create/.               *)
Line(s, q) == [service |-> s, quantity |-> q]
ServiceInputs ==
  { <<>>,
    <<Line("cut", 1), Line("dye", 2)>>,
    <<Line("cut", 1), Line("cut", 2)>> }

Requests == 1..NumRequests

VARIABLES clock, booking, bookingservice, queue, loyalty, product, req, out, updates

vars == <<clock, booking, bookingservice, queue, loyalty, product, req, out, updates>>

(* ------------------------------ helpers -------------------------------- *)
(* A request slot is idle or holds a view in flight: its arguments, the    *)
(* place it has reached, its in-memory row and locals, and the             *)
(* notifications it has sent.  `out` is the response the last step         *)
(* returned to its client, if that step ended a view.                      *)
Idle ==
  [op |-> "none", user |-> NoUser, target |-> 0, pc |-> "idle",
   seen |-> NoRow, data |-> 0, sent |-> <<>>]

NoResponse == [op |-> "none", target |-> 0, result |-> "none", sent |-> <<>>]

Free(r) == req[r].pc = "idle"

Begin(r, op, u, t, pc, seen, data) ==
  /\ req' = [req EXCEPT ![r] =
               [op |-> op, user |-> u, target |-> t, pc |-> pc,
                seen |-> seen, data |-> data, sent |-> <<>>]]
  /\ out' = NoResponse

(* The view returns before it has touched the database a second time.      *)
Reject(r, op, t, why) ==
  /\ req' = req
  /\ out' = [op |-> op, target |-> t, result |-> why, sent |-> <<>>]

Continue(r, pc, seen, data, notes) ==
  /\ req' = [req EXCEPT ![r].pc = pc, ![r].seen = seen, ![r].data = data,
                        ![r].sent = req[r].sent \o notes]
  /\ out' = NoResponse

Finish(r, why, notes) ==
  /\ req' = [req EXCEPT ![r] = Idle]
  /\ out' = [op |-> req[r].op, target |-> req[r].target, result |-> why,
             sent |-> req[r].sent \o notes]

Note(u, kind) == [user |-> u, kind |-> kind]

BookingIds == 1..Len(booking)
QueueIds == 1..Len(queue)

RECURSIVE SumOver(_, _)
SumOver(S, f) ==
  IF S = {} THEN 0
  ELSE LET x == CHOOSE y \in S : TRUE
       IN  f[x] + SumOver(S \ {x}, f)

Rows(b) == {bs \in bookingservice : bs.booking = b}

(* Queue.total_service_duration: one term per service of the booking.     *)
total_service_duration(q) ==
  LET rows == Rows(q.booking)
  IN  SumOver(rows, [bs \in rows |-> Service[bs.service].duration])

(* Queue.objects.all(): the filter on status left out.                     *)
AllIds == 1..Len(queue)

(* QueueManager.get_active_queue, as the set of ids it selects.            *)
ActiveIds == {i \in QueueIds : queue[i].status = "waiting"}

(* Booking.get_estimated_wait_time                                         *)
get_estimated_wait_time ==
  SumOver(ActiveIds, [i \in ActiveIds |-> total_service_duration(queue[i])])

(* QueueManager.get_customer_position: .get(customer=...) on the active    *)
(* queue raises MultipleObjectsReturned when the customer waits twice.     *)
WaitingOf(u) == {i \in ActiveIds : queue[i].customer = u}
PositionFails(u) == Cardinality(WaitingOf(u)) > 1

(* ------------------------------- Init ---------------------------------- *)
Init ==
  /\ clock = 0
  /\ booking = <<>>
  /\ bookingservice = {}
  /\ queue = <<>>
  /\ loyalty = [u \in Customers |-> 0]
  /\ product = [p \in Products |-> [stock_quantity |-> InitialStock, usage_count |-> 0]]
  /\ req = [r \in Requests |-> Idle]
  /\ out = NoResponse
  /\ updates = 0

(* timezone.now(): `clock` is the last value it returned; the next call    *)
(* returns the same instant or a later one.                                *)
Nows == {clock} \cup (IF clock < MaxClock THEN {clock + 1} ELSE {})

(* ------------------- BookingCreateSerializer.create -------------------- *)
(* A table without the uniqueness constraint.                              *)
DuplicateLineUnchecked(rows, b, s) == FALSE

(* unique_together = ['booking', 'service']                                *)
DuplicateLine(rows, b, s) == \E bs \in rows : bs.booking = b /\ bs.service = s

(* The BookingService rows the loop of create() inserts before it ends or  *)
(* the first duplicate raises IntegrityError.                              *)
RECURSIVE InsertLines(_, _, _)
InsertLines(rows, b, lines) ==
  IF lines = <<>> THEN [rows |-> rows, ok |-> TRUE]
  ELSE LET line == Head(lines)
       IN  IF DuplicateLine(rows, b, line.service)
           THEN [rows |-> rows, ok |-> FALSE]
           ELSE InsertLines(rows \cup {[booking |-> b, service |-> line.service,
                                        quantity |-> line.quantity]},
                            b, Tail(lines))

(* Totals that count every line once, whatever its quantity.               *)
calculate_totals_per_line(rows, row) ==
  [row EXCEPT
     !.total_amount = SumOver(rows, [bs \in rows |-> Service[bs.service].price]),
     !.total_duration = SumOver(rows, [bs \in rows |-> Service[bs.service].duration])]

(* Totals that are added to the stored ones instead of replacing them.     *)
calculate_totals_adding(rows, row) ==
  [row EXCEPT
     !.total_amount =
        @ + SumOver(rows, [bs \in rows |-> Service[bs.service].price * bs.quantity]),
     !.total_duration =
        @ + SumOver(rows, [bs \in rows |-> Service[bs.service].duration * bs.quantity])]

(* Booking.calculate_totals: recompute from the rows of the booking.       *)
calculate_totals(rows, row) ==
  [row EXCEPT
     !.total_amount =
        SumOver(rows, [bs \in rows |-> Service[bs.service].price * bs.quantity]),
     !.total_duration =
        SumOver(rows, [bs \in rows |-> Service[bs.service].duration * bs.quantity])]

(* The whole of create(), for a run that holds fewer than `max` bookings.  *)
CreateBookingWithin(r, u, lines, max) ==
  /\ Free(r)
  /\ Len(booking) < max
  /\ LET b == Len(booking) + 1
         row == [customer |-> u, total_amount |-> 0, total_duration |-> 0,
                 is_confirmed |-> FALSE]
         ins == InsertLines(bookingservice, b, lines)
         mine == {bs \in ins.rows : bs.booking = b}
     IN  /\ bookingservice' = ins.rows
         /\ IF ins.ok
            THEN /\ booking' = Append(booking, calculate_totals(mine, row))
                 /\ Reject(r, "create", b, "ok")
            ELSE /\ booking' = Append(booking, row)
                 /\ Reject(r, "create", b, "IntegrityError")
  /\ UNCHANGED <<clock, queue, loyalty, updates, product>>

CreateBooking(r, u, lines) == CreateBookingWithin(r, u, lines, MaxBookings)

(* ------------------------ views.confirm_booking ------------------------ *)
(* get_object_or_404(Booking, id=..., customer=request.user)               *)
BookingFound(b, u) == b \in BookingIds /\ booking[b].customer = u

(* The view without its is_confirmed check.                                *)
AlreadyConfirmedUnchecked(row) == FALSE

AlreadyConfirmed(row) == row.is_confirmed

ConfirmRead(r, u, b) ==
  /\ Free(r)
  /\ IF ~BookingFound(b, u) THEN Reject(r, "confirm", b, "NotFound")
     ELSE IF AlreadyConfirmed(booking[b])
          THEN Reject(r, "confirm", b, "AlreadyConfirmed")
          ELSE Begin(r, "confirm", u, b, "confirm_save", booking[b], 0)
  /\ UNCHANGED <<clock, booking, bookingservice, queue, loyalty, updates, product>>

(* Booking.confirm_booking, first half: is_confirmed = True; save(); then  *)
(* timezone.now() + get_estimated_wait_time() is evaluated.                *)
ConfirmSave(r, now) ==
  /\ req[r].pc = "confirm_save"
  /\ LET b == req[r].target
         row == [req[r].seen EXCEPT !.is_confirmed = TRUE]
     IN  /\ booking' = [booking EXCEPT ![b] = row]
         /\ Continue(r, "confirm_create", row, now + get_estimated_wait_time, <<>>)
  /\ clock' = now
  /\ UNCHANGED <<bookingservice, queue, loyalty, updates, product>>

(* OneToOneField('Booking'): the unique constraint on queue.booking_id     *)
HasQueueItemNotUnique(b) == FALSE

HasQueueItem(b) == \E i \in QueueIds : queue[i].booking = b

(* Booking.confirm_booking, second half: Queue.objects.create(...)         *)
ConfirmCreate(r, now) ==
  /\ req[r].pc = "confirm_create"
  /\ LET b == req[r].target
     IN  IF HasQueueItem(b)
         THEN /\ Finish(r, "IntegrityError", <<>>)
              /\ UNCHANGED <<queue, clock>>
         ELSE /\ queue' = Append(queue,
                    [customer |-> req[r].seen.customer, booking |-> b,
                     status |-> "waiting", time_joined |-> now,
                     time_started |-> NoTime, time_completed |-> NoTime,
                     estimated_start_time |-> req[r].data,
                     staff_assigned |-> NoUser])
              /\ clock' = now
              /\ Continue(r, "confirm_notify", NoRow, 0, <<>>)
  /\ UNCHANGED <<booking, bookingservice, loyalty, updates, product>>

(* views.confirm_booking, lines 58-69: position_in_queue is read for the   *)
(* message and for the response.                                           *)
ConfirmNotify(r) ==
  /\ req[r].pc = "confirm_notify"
  /\ IF PositionFails(req[r].user)
     THEN Finish(r, "MultipleObjectsReturned", <<>>)
     ELSE Finish(r, "ok", <<Note(req[r].user, "booking_confirmed")>>)
  /\ UNCHANGED <<clock, booking, bookingservice, queue, loyalty, updates, product>>

(* ------------------------- views.start_service ------------------------- *)
IsStaff(u) == Role(u) \in {"admin", "staff"}

(* A guard that also lets an entry in service be started again.            *)
StartGuardLoose(row) == row.status \notin {"waiting", "in_progress"}

StartGuard(row) == row.status # "waiting"

(* A view that answers an unknown id like a wrong status.                  *)
StartReadVague(r, u, q) ==
  /\ Free(r)
  /\ IF ~IsStaff(u) THEN Reject(r, "start", q, "PermissionDenied")
     ELSE IF q \notin QueueIds THEN Reject(r, "start", q, "InvalidTransition")
     ELSE IF StartGuard(queue[q])
          THEN Reject(r, "start", q, "InvalidTransition")
          ELSE Begin(r, "start", u, q, "start_save", queue[q], 0)
  /\ UNCHANGED <<clock, booking, bookingservice, queue, loyalty, updates, product>>

StartRead(r, u, q) ==
  /\ Free(r)
  /\ IF ~IsStaff(u) THEN Reject(r, "start", q, "PermissionDenied")
     ELSE IF q \notin QueueIds THEN Reject(r, "start", q, "NotFound")
     ELSE IF StartGuard(queue[q])
          THEN Reject(r, "start", q, "InvalidTransition")
          ELSE Begin(r, "start", u, q, "start_save", queue[q], 0)
  /\ UNCHANGED <<clock, booking, bookingservice, queue, loyalty, updates, product>>

(* A start that also stamps the entry as joined anew.                      *)
start_service_rejoin(row, staff_member, now) ==
  [row EXCEPT !.status = "in_progress", !.time_started = now,
              !.staff_assigned = staff_member, !.time_joined = now]

(* Queue.start_service: the fields set on the in-memory row                *)
start_service(row, staff_member, now) ==
  [row EXCEPT !.status = "in_progress", !.time_started = now,
              !.staff_assigned = staff_member]

(* save() writes the whole row; then the customer is notified.             *)
StartSave(r, now) ==
  /\ req[r].pc = "start_save"
  /\ LET q == req[r].target
         row == start_service(req[r].seen, req[r].user, now)
     IN  /\ queue' = [queue EXCEPT ![q] = row]
         /\ Finish(r, "ok", <<Note(row.customer, "service_started")>>)
  /\ clock' = now
  /\ UNCHANGED <<booking, bookingservice, loyalty, updates, product>>

(* ------------------------ views.complete_service ----------------------- *)
(* A guard that also lets a waiting entry be completed.                    *)
CompleteGuardLoose(row) == row.status \notin {"in_progress", "waiting"}

CompleteGuard(row) == row.status # "in_progress"

CompleteRead(r, u, q) ==
  /\ Free(r)
  /\ IF ~IsStaff(u) THEN Reject(r, "complete", q, "PermissionDenied")
     ELSE IF q \notin QueueIds THEN Reject(r, "complete", q, "NotFound")
     ELSE IF CompleteGuard(queue[q])
          THEN Reject(r, "complete", q, "InvalidTransition")
          ELSE Begin(r, "complete", u, q, "complete_save", queue[q], 0)
  /\ UNCHANGED <<clock, booking, bookingservice, queue, loyalty, updates, product>>

(* Queue.complete_service                                                  *)
complete_service(row, now) ==
  [row EXCEPT !.status = "completed", !.time_completed = now]

(* views.complete_service, lines 175-176                                   *)
total_points(b) ==
  LET rows == Rows(b)
  IN  SumOver(rows, [bs \in rows |-> Service[bs.service].loyalty_points * bs.quantity])

(* save() of the entry; then queue_item.customer is fetched and the        *)
(* points of the booking are summed.                                       *)
CompleteSave(r, now) ==
  /\ req[r].pc = "complete_save"
  /\ LET q == req[r].target
         row == complete_service(req[r].seen, now)
     IN  /\ queue' = [queue EXCEPT ![q] = row]
         /\ Continue(r, "complete_credit", row,
                     [balance |-> loyalty[row.customer],
                      points |-> total_points(row.booking)], <<>>)
  /\ clock' = now
  /\ UNCHANGED <<booking, bookingservice, loyalty, updates, product>>

(* customer.loyalty_points += total_points; customer.save(); notification  *)
CompleteCredit(r) ==
  /\ req[r].pc = "complete_credit"
  /\ LET c == req[r].seen.customer
     IN  /\ loyalty' = [loyalty EXCEPT ![c] = req[r].data.balance + req[r].data.points]
         /\ Continue(r, "complete_next", NoRow, 0, <<Note(c, "service_completed")>>)
  /\ UNCHANGED <<clock, booking, bookingservice, queue, updates, product>>

(* The view opens no transaction and catches nothing: when                 *)
(* customer.save() or a notification raises, the request ends with a       *)
(* server error and the entry row that complete_service() saved stays.     *)
AfterErrorRolledBack(row) ==
  [row EXCEPT !.status = "in_progress", !.time_completed = NoTime]

AfterError(row) == row

CompleteCreditFails(r) ==
  /\ req[r].pc = "complete_credit"
  /\ LET q == req[r].target
         c == req[r].seen.customer
     IN  /\ queue' = [queue EXCEPT ![q] = AfterError(queue[q])]
         /\ \/ loyalty' = loyalty
            \/ loyalty' = [loyalty EXCEPT ![c] = req[r].data.balance + req[r].data.points]
  /\ Finish(r, "ServerError", <<>>)
  /\ UNCHANGED <<clock, booking, bookingservice, updates, product>>

(* Queue.objects.first(): the filter on status forgotten.                  *)
FirstsOfAll == {i \in QueueIds : \A j \in QueueIds : queue[i].time_joined <= queue[j].time_joined}

(* get_active_queue().first(): a waiting entry with the least time_joined  *)
Firsts == {i \in ActiveIds : \A j \in ActiveIds : queue[i].time_joined <= queue[j].time_joined}

CompleteNext(r) ==
  /\ req[r].pc = "complete_next"
  /\ IF Firsts = {}
     THEN Finish(r, "ok", <<>>)
     ELSE \E i \in Firsts : Finish(r, "ok", <<Note(queue[i].customer, "queue_next")>>)
  /\ UNCHANGED <<clock, booking, bookingservice, queue, loyalty, updates, product>>

(* The queue_next notification raises.                                     *)
CompleteNextFails(r) ==
  /\ req[r].pc = "complete_next"
  /\ Firsts # {}
  /\ LET q == req[r].target
     IN  queue' = [queue EXCEPT ![q] = AfterError(queue[q])]
  /\ Finish(r, "ServerError", <<>>)
  /\ UNCHANGED <<clock, booking, bookingservice, loyalty, updates, product>>

(* ----------------------- views.cancel_queue_item ----------------------- *)
(* A view without its permission check.                                    *)
CancelAllowedAnyone(u, row) == TRUE

CancelAllowed(u, row) == u = row.customer \/ IsStaff(u)

CancelGuard(row) == row.status \in {"completed", "cancelled"}

CancelRead(r, u, q) ==
  /\ Free(r)
  /\ IF q \notin QueueIds THEN Reject(r, "cancel", q, "NotFound")
     ELSE IF ~CancelAllowed(u, queue[q])
          THEN Reject(r, "cancel", q, "PermissionDenied")
     ELSE IF CancelGuard(queue[q])
          THEN Reject(r, "cancel", q, "InvalidTransition")
          ELSE Begin(r, "cancel", u, q, "cancel_save", queue[q], 0)
  /\ UNCHANGED <<clock, booking, bookingservice, queue, loyalty, updates, product>>

(* A cancel that also clears the stored estimate.                          *)
cancel_service_clearing(row) ==
  [row EXCEPT !.status = "cancelled", !.estimated_start_time = NoTime]

(* Queue.cancel_service                                                    *)
cancel_service(row) == [row EXCEPT !.status = "cancelled"]

(* A view that notifies the customer of every cancel.                      *)
CancelNotifiesAlways(u, row) == TRUE

(* "Notify customer if cancelled by staff": request.user != customer       *)
CancelNotifies(u, row) == u # row.customer

(* A cancel that holds its save back while another request is in flight. *)
CancelSaveWaits(r) ==
  /\ req[r].pc = "cancel_save"
  /\ \A other \in Requests \ {r} : Free(other)
  /\ LET q == req[r].target
         row == cancel_service(req[r].seen)
     IN  /\ queue' = [queue EXCEPT ![q] = row]
         /\ IF CancelNotifies(req[r].user, row)
            THEN Finish(r, "ok", <<Note(row.customer, "booking_cancelled")>>)
            ELSE Finish(r, "ok", <<>>)
  /\ UNCHANGED <<clock, booking, bookingservice, loyalty, updates, product>>

CancelSave(r) ==
  /\ req[r].pc = "cancel_save"
  /\ LET q == req[r].target
         row == cancel_service(req[r].seen)
     IN  /\ queue' = [queue EXCEPT ![q] = row]
         /\ IF CancelNotifies(req[r].user, row)
            THEN Finish(r, "ok", <<Note(row.customer, "booking_cancelled")>>)
            ELSE Finish(r, "ok", <<>>)
  /\ UNCHANGED <<clock, booking, bookingservice, loyalty, updates, product>>

(* ----------------------- views.update_queue_item ----------------------- *)
(* QueueUpdateSerializer: fields = ('status', 'notes', 'staff_assigned'),  *)
(* partial=True.  A PATCH body gives a status, a staff member, or both.    *)
NoChange == "unchanged"
UpdateInputs ==
  { [status |-> s, staff_assigned |-> NoChange] : s \in STATUS_CHOICES \cup {"bogus"} }
  \cup { [status |-> NoChange, staff_assigned |-> s] : s \in StaffUsers }

UpdateValid(d) == d.status \in STATUS_CHOICES \cup {NoChange}

QueueUpdate(row, d) ==
  [row EXCEPT
     !.status = IF d.status = NoChange THEN @ ELSE d.status,
     !.staff_assigned = IF d.staff_assigned = NoChange THEN @ ELSE d.staff_assigned]

(* `updates` counts the PATCH requests the run has admitted.               *)
UpdateRead(r, u, q, d) ==
  /\ Free(r)
  /\ updates < MaxUpdates
  /\ updates' = updates + 1
  /\ IF ~IsStaff(u) THEN Reject(r, "update", q, "PermissionDenied")
     ELSE IF q \notin QueueIds THEN Reject(r, "update", q, "NotFound")
     ELSE IF ~UpdateValid(d) THEN Reject(r, "update", q, "ValidationError")
          ELSE Begin(r, "update", u, q, "update_save", queue[q], d)
  /\ UNCHANGED <<clock, booking, bookingservice, queue, loyalty, product>>

UpdateSave(r) ==
  /\ req[r].pc = "update_save"
  /\ LET q == req[r].target
     IN  queue' = [queue EXCEPT ![q] = QueueUpdate(req[r].seen, req[r].data)]
  /\ Finish(r, "ok", <<>>)
  /\ UNCHANGED <<clock, booking, bookingservice, loyalty, updates, product>>

(* ------------------------------- Next ---------------------------------- *)
Targets == 1..MaxBookings

Next ==
  \/ \E r \in Requests, u \in Bookers, lines \in ServiceInputs : CreateBooking(r, u, lines)
  \/ \E r \in Requests, u \in Users, b \in Targets : ConfirmRead(r, u, b)
  \/ \E r \in Requests, now \in Nows : ConfirmSave(r, now)
  \/ \E r \in Requests, now \in Nows : ConfirmCreate(r, now)
  \/ \E r \in Requests : ConfirmNotify(r)
  \/ \E r \in Requests, u \in Users, q \in Targets : StartRead(r, u, q)
  \/ \E r \in Requests, now \in Nows : StartSave(r, now)
  \/ \E r \in Requests, u \in Users, q \in Targets : CompleteRead(r, u, q)
  \/ \E r \in Requests, now \in Nows : CompleteSave(r, now)
  \/ \E r \in Requests : CompleteCredit(r)
  \/ \E r \in Requests : CompleteNext(r)
  \/ \E r \in Requests : CompleteCreditFails(r)
  \/ \E r \in Requests : CompleteNextFails(r)
  \/ \E r \in Requests, u \in Users, q \in Targets : CancelRead(r, u, q)
  \/ \E r \in Requests : CancelSave(r)
  \/ \E r \in Requests, u \in Users, q \in Targets, d \in UpdateInputs : UpdateRead(r, u, q, d)
  \/ \E r \in Requests : UpdateSave(r)

Spec == Init /\ [][Next]_vars


(* ------------------- position and wait of a customer ------------------- *)
(* order_by('time_joined'): the key the active queue is sorted on.          *)
order_by_descending(row) == 0 - row.time_joined

order_by(row) == row.time_joined

(* The lists get_active_queue() can return: the waiting entries sorted on   *)
(* the key; the database picks the order of entries with equal keys.        *)
ActiveOrders ==
  LET n == Cardinality(ActiveIds)
  IN  { o \in [1..n -> ActiveIds] :
          /\ \A i, j \in 1..n : i # j => o[i] # o[j]
          /\ \A i, j \in 1..n : i < j => order_by(queue[o[i]]) <= order_by(queue[o[j]]) }

IndexOf(o, e) == CHOOSE i \in DOMAIN o : o[i] = e

None == 0

(* QueueManager.get_customer_position: the values it can return, when      *)
(* active_queue.get(customer=customer) finds one entry or none.            *)
get_customer_position(u) ==
  IF WaitingOf(u) = {} THEN {None}
  ELSE {IndexOf(o, e) : o \in ActiveOrders, e \in WaitingOf(u)}

(* QueueManager.estimate_wait_time for a call that got `position`: the sum *)
(* over get_active_queue()[:position-1] of service.duration, one term per  *)
(* service of the booking.                                                 *)
estimate_wait_time(position) ==
  IF position = None THEN {0}
  ELSE { SumOver(1..(position - 1),
                 [i \in 1..(position - 1) |-> total_service_duration(queue[o[i]])]) :
         o \in ActiveOrders }

(* views.queue_position: Queue.objects.get(customer=request.user,          *)
(* status='waiting'), then position_in_queue and estimated_wait_time.      *)
PositionResponse(u, result, position, wait) ==
  [op |-> "position", target |-> 0, result |-> result, sent |-> <<>>,
   user |-> u, position |-> position, estimated_wait_time |-> wait]

QueuePositionResponses(u) ==
  IF WaitingOf(u) = {} THEN {PositionResponse(u, "NotFound", None, 0)}
  ELSE IF PositionFails(u)
       THEN {PositionResponse(u, "MultipleObjectsReturned", None, 0)}
       ELSE { PositionResponse(u, "ok", p, w) :
                p \in get_customer_position(u),
                w \in UNION {estimate_wait_time(p2) : p2 \in get_customer_position(u)} }

queue_position(r, u) ==
  /\ Free(r)
  /\ req' = req
  /\ out' \in QueuePositionResponses(u)
  /\ UNCHANGED <<clock, booking, bookingservice, queue, loyalty, product, updates>>

(* --------------- the engine serving one request at a time --------------- *)
MaxQueue == 3
MaxSeqClock == 2

(* The `services` lists posted in these runs.                               *)
SeqInputs == { <<Line("cut", 1), Line("dye", 2)>> }

SeqNows == {clock} \cup (IF clock < MaxSeqClock THEN {clock + 1} ELSE {})

(* The clients of these runs send the calls the state machine allows: a    *)
(* confirm by the owner of an unconfirmed booking, a start of a waiting     *)
(* entry, a complete of an entry in progress, a cancel by staff of an       *)
(* entry that is waiting or in progress, and position reads.                *)
SeqNext ==
  \/ \E u \in Customers, lines \in SeqInputs : CreateBookingWithin(1, u, lines, MaxQueue)
  \/ \E b \in BookingIds : ~booking[b].is_confirmed /\ ConfirmRead(1, booking[b].customer, b)
  \/ ConfirmSave(1, clock)
  \/ \E now \in SeqNows : ConfirmCreate(1, now)
  \/ ConfirmNotify(1)
  \/ \E u \in StaffUsers, q \in ActiveIds : StartRead(1, u, q)
  \/ StartSave(1, clock)
  \/ \E u \in StaffUsers, q \in QueueIds : queue[q].status = "in_progress" /\ CompleteRead(1, u, q)
  \/ CompleteSave(1, clock)
  \/ CompleteCredit(1)
  \/ CompleteNext(1)
  \/ \E u \in StaffUsers, q \in QueueIds :
        queue[q].status \in {"waiting", "in_progress"} /\ CancelRead(1, u, q)
  \/ CancelSave(1)
  \/ \E u \in Customers : queue_position(1, u)

SeqSpec == Init /\ [][SeqNext]_vars

(* ------------------- requests that run to their end -------------------- *)
(* The calls of the queue engine by the users entitled to them, two at a   *)
(* time: confirm by a booker, start and complete by staff, cancel by       *)
(* anyone, and the position read.  With one booking no entry waits when a  *)
(* complete ends, so no queue_next is sent in these runs.                  *)
LiveNext ==
  \/ \E r \in Requests, u \in Bookers, lines \in SeqInputs : CreateBooking(r, u, lines)
  \/ \E r \in Requests, u \in Bookers, b \in Targets : ConfirmRead(r, u, b)
  \/ \E r \in Requests : ConfirmSave(r, clock)
  \/ \E r \in Requests : ConfirmCreate(r, clock)
  \/ \E r \in Requests : ConfirmNotify(r)
  \/ \E r \in Requests, u \in StaffUsers, q \in Targets : StartRead(r, u, q)
  \/ \E r \in Requests : StartSave(r, clock)
  \/ \E r \in Requests, u \in StaffUsers, q \in Targets : CompleteRead(r, u, q)
  \/ \E r \in Requests : CompleteSave(r, clock)
  \/ \E r \in Requests : CompleteCredit(r)
  \/ \E r \in Requests : CompleteNext(r)
  \/ \E r \in Requests : CompleteCreditFails(r)
  \/ \E r \in Requests, u \in Users, q \in Targets : CancelRead(r, u, q)
  \/ \E r \in Requests : CancelSave(r)
  \/ \E r \in Requests, u \in Customers : queue_position(r, u)

(* A view runs on its worker without waiting for any other request: a      *)
(* request that has a next query to run runs it.                           *)
Proceeds(r) ==
  \/ ConfirmSave(r, clock)
  \/ ConfirmCreate(r, clock)
  \/ ConfirmNotify(r)
  \/ StartSave(r, clock)
  \/ CompleteSave(r, clock)
  \/ CompleteCredit(r) \/ CompleteCreditFails(r)
  \/ CompleteNext(r)
  \/ CancelSave(r)

LiveSpec == Init /\ [][LiveNext]_vars /\ \A r \in Requests : WF_vars(Proceeds(r))

(* ------------------- the engine and its list read ----------------------- *)
MaxRead == 2

(* ActiveQueueView: any authenticated user is sent get_active_queue().      *)
ActiveQueueView(r, u) ==
  /\ Free(r)
  /\ req' = req
  /\ \E o \in ActiveOrders :
       out' = [op |-> "active", target |-> 0, result |-> "ok", sent |-> <<>>,
               user |-> u, entries |-> o]
  /\ UNCHANGED <<clock, booking, bookingservice, queue, loyalty, product, updates>>

(* The calls of SeqNext on at most MaxRead bookings, and the list read.     *)
ReadNext ==
  \/ SeqNext /\ Len(booking') <= MaxRead
  \/ \E u \in Users : ActiveQueueView(1, u)

ReadSpec == Init /\ [][ReadNext]_vars

(* ------------- BookingCreateSerializer.create, query by query ----------- *)
(* create() opens no transaction: the Booking row is inserted first, then   *)
(* one BookingService row per posted line, then calculate_totals() saves    *)
(* the booking; every insert is visible to other requests at once.          *)
MaxCreated == 2

(* The `services` lists posted in these runs; quantity is taken as sent.    *)
CreateInputs ==
  { <<>>,
    <<Line("cut", 1), Line("dye", 2)>>,
    <<Line("cut", 1), Line("cut", 2)>>,
    <<Line("dye", 0)>> }

(* Booking.objects.create(customer=request.user, ...)                       *)
CreateInsertBooking(r, u, lines) ==
  /\ Free(r)
  /\ Len(booking) < MaxCreated
  /\ LET b == Len(booking) + 1
         row == [customer |-> u, total_amount |-> 0, total_duration |-> 0,
                 is_confirmed |-> FALSE]
     IN  /\ booking' = Append(booking, row)
         /\ Begin(r, "create", u, b, "create_lines", row, lines)
  /\ UNCHANGED <<clock, bookingservice, queue, loyalty, updates, product>>

(* BookingService.objects.create(...) for the next posted line: the row is  *)
(* inserted unless unique_together raises IntegrityError.  quantity is a    *)
(* PositiveIntegerField, which admits 0, and create() runs no validator.    *)
CreateInsertLine(r) ==
  /\ req[r].pc = "create_lines"
  /\ req[r].data # <<>>
  /\ LET b == req[r].target
         line == Head(req[r].data)
     IN  IF DuplicateLine(bookingservice, b, line.service)
         THEN /\ bookingservice' = bookingservice
              /\ Finish(r, "IntegrityError", <<>>)
         ELSE /\ bookingservice' = bookingservice \cup
                   {[booking |-> b, service |-> line.service, quantity |-> line.quantity]}
              /\ Continue(r, "create_lines", req[r].seen, Tail(req[r].data), <<>>)
  /\ UNCHANGED <<clock, booking, queue, loyalty, updates, product>>

(* booking.calculate_totals() after the loop, and the 201 response          *)
CreateTotals(r) ==
  /\ req[r].pc = "create_lines"
  /\ req[r].data = <<>>
  /\ LET b == req[r].target
     IN  booking' = [booking EXCEPT ![b] = calculate_totals(Rows(b), req[r].seen)]
  /\ Finish(r, "ok", <<>>)
  /\ UNCHANGED <<clock, bookingservice, queue, loyalty, updates, product>>

(* BookingDetailView: the booking as its owner or staff reads it            *)
BookingVisible(u, b) == b \in BookingIds /\ (IsStaff(u) \/ booking[b].customer = u)

BookingDetail(r, u, b) ==
  /\ Free(r)
  /\ req' = req
  /\ out' = IF BookingVisible(u, b)
            THEN [op |-> "detail", target |-> b, result |-> "ok", sent |-> <<>>,
                  total_amount |-> booking[b].total_amount,
                  total_duration |-> booking[b].total_duration,
                  booking_services |-> Rows(b)]
            ELSE [op |-> "detail", target |-> b, result |-> "NotFound", sent |-> <<>>]
  /\ UNCHANGED <<clock, booking, bookingservice, queue, loyalty, updates, product>>

CreateNext ==
  \/ \E r \in Requests, u \in Customers, lines \in CreateInputs : CreateInsertBooking(r, u, lines)
  \/ \E r \in Requests : CreateInsertLine(r)
  \/ \E r \in Requests : CreateTotals(r)
  \/ \E r \in Requests, u \in Users, b \in 1..MaxCreated : BookingDetail(r, u, b)

CreateSpec == Init /\ [][CreateNext]_vars

(* --------------- Product.reduce_stock and Product.add_stock ------------- *)
(* A caller fetches the Product row (item.product) and calls the method on  *)
(* that instance; save() writes the instance back.  The quantities are     *)
(* those of PositiveIntegerField columns (OrderProductItem.quantity,       *)
(* quantity_used x quantity).                                              *)
MaxQuantity == 3
MaxStock == 6
MaxUsage == 6
Quantities == 0..MaxQuantity

(* A reduce_stock without its stock check.                                 *)
reduce_stock_unchecked(row, quantity) ==
  [ok |-> TRUE,
   row |-> [row EXCEPT !.stock_quantity = @ - quantity, !.usage_count = @ + quantity]]

(* Product.reduce_stock on an instance: the value returned and the fields  *)
(* of the instance afterwards.                                             *)
reduce_stock(row, quantity) ==
  IF row.stock_quantity >= quantity
  THEN [ok |-> TRUE,
        row |-> [row EXCEPT !.stock_quantity = @ - quantity, !.usage_count = @ + quantity]]
  ELSE [ok |-> FALSE, row |-> row]

(* Product.add_stock on an instance                                        *)
add_stock(row, quantity) == [row EXCEPT !.stock_quantity = @ + quantity]

(* item.product: the row is fetched.  MaxUsage and MaxStock end the run.    *)
ReduceLoad(r, p, quantity) ==
  /\ Free(r)
  /\ product[p].usage_count + quantity <= MaxUsage
  /\ Begin(r, "reduce_stock", NoUser, 0, "reduce_save", product[p],
           [product |-> p, quantity |-> quantity])
  /\ UNCHANGED <<clock, booking, bookingservice, queue, loyalty, updates, product>>

(* reduce_stock(quantity): self.save() when the stock suffices             *)
ReduceSave(r) ==
  /\ req[r].pc = "reduce_save"
  /\ LET p == req[r].data.product
         done == reduce_stock(req[r].seen, req[r].data.quantity)
     IN  IF done.ok
         THEN /\ product' = [product EXCEPT ![p] = done.row]
              /\ Finish(r, "True", <<>>)
         ELSE /\ product' = product
              /\ Finish(r, "False", <<>>)
  /\ UNCHANGED <<clock, booking, bookingservice, queue, loyalty, updates>>

AddLoad(r, p, quantity) ==
  /\ Free(r)
  /\ product[p].stock_quantity + quantity <= MaxStock
  /\ Begin(r, "add_stock", NoUser, 0, "add_save", product[p],
           [product |-> p, quantity |-> quantity])
  /\ UNCHANGED <<clock, booking, bookingservice, queue, loyalty, updates, product>>

(* add_stock(quantity): self.save()                                        *)
AddSave(r) ==
  /\ req[r].pc = "add_save"
  /\ LET p == req[r].data.product
     IN  product' = [product EXCEPT ![p] = add_stock(req[r].seen, req[r].data.quantity)]
  /\ Finish(r, "None", <<>>)
  /\ UNCHANGED <<clock, booking, bookingservice, queue, loyalty, updates>>

StockNext ==
  \/ \E r \in Requests, p \in Products, quantity \in Quantities : ReduceLoad(r, p, quantity)
  \/ \E r \in Requests : ReduceSave(r)
  \/ \E r \in Requests, p \in Products, quantity \in Quantities : AddLoad(r, p, quantity)
  \/ \E r \in Requests : AddSave(r)

StockSpec == Init /\ [][StockNext]_vars

(* ------------------ Booking.calculate_totals, called again -------------- *)
(* booking.calculate_totals() on a booking fetched for the call: the rows   *)
(* are read, the two totals are set on the instance and save() writes it.   *)
CalculateTotals(r, b) ==
  /\ Free(r)
  /\ b \in BookingIds
  /\ booking' = [booking EXCEPT ![b] = calculate_totals(Rows(b), booking[b])]
  /\ req' = req
  /\ out' = [op |-> "calculate_totals", target |-> b, result |-> "ok", sent |-> <<>>]
  /\ UNCHANGED <<clock, bookingservice, queue, loyalty, updates, product>>

(* One request at a time: bookings are created query by query, confirmed   *)
(* by their owners, and have their totals recomputed.                      *)
TotalsNext ==
  \/ \E u \in Customers, lines \in CreateInputs : CreateInsertBooking(1, u, lines)
  \/ CreateInsertLine(1)
  \/ CreateTotals(1)
  \/ \E b \in BookingIds : ConfirmRead(1, booking[b].customer, b)
  \/ ConfirmSave(1, clock)
  \/ ConfirmCreate(1, clock)
  \/ ConfirmNotify(1)
  \/ \E b \in BookingIds : CalculateTotals(1, b)

TotalsSpec == Init /\ [][TotalsNext]_vars

(* Orders completing at the same time: only reduce_stock calls.            *)
SettleNext ==
  \/ \E r \in Requests, p \in Products, quantity \in Quantities : ReduceLoad(r, p, quantity)
  \/ \E r \in Requests : ReduceSave(r)

SettleSpec == Init /\ [][SettleNext]_vars

(* =============================== claims ================================ *)
Terminal == {"completed", "cancelled", "no_show"}

Edges ==
  { <<"waiting", "in_progress">>, <<"in_progress", "completed">>,
    <<"waiting", "cancelled">>, <<"in_progress", "cancelled">>,
    <<"waiting", "no_show">>, <<"in_progress", "no_show">> }

(* The step in which slot r leaves the place pc of its view.               *)
Leaves(r, pc) == req[r].pc = pc /\ req'[r] # req[r]

(* C1: once an entry is completed, cancelled or no_show, no step changes   *)
(* its status again.                                                       *)
C1_TerminalIsFinal ==
  [][\A q \in QueueIds :
        queue[q].status \in Terminal => queue'[q].status = queue[q].status]_vars

(* C2: a start call by staff on an existing entry that is not waiting      *)
(* returns InvalidTransition and changes no row; a call on a waiting entry *)
(* passes the guard, and only such a call does; its save sets in_progress, *)
(* time_started = now and staff_assigned = the caller, and reports ok.     *)
C2_StartContract ==
  [][/\ \A r \in Requests, u \in Users, q \in QueueIds :
          StartRead(r, u, q) /\ IsStaff(u) =>
            IF queue[q].status = "waiting"
            THEN req'[r].pc = "start_save" /\ out' = NoResponse
            ELSE /\ out' = [op |-> "start", target |-> q,
                            result |-> "InvalidTransition", sent |-> <<>>]
                 /\ queue' = queue /\ req' = req
     /\ \A r \in Requests :
          req'[r].pc = "start_save" => req'[r].seen.status = "waiting"
     /\ \A r \in Requests :
          Leaves(r, "start_save") =>
            LET q == req[r].target
            IN  /\ out'.op = "start" /\ out'.result = "ok"
                /\ queue'[q].status = "in_progress"
                /\ queue'[q].time_started = clock'
                /\ queue'[q].staff_assigned = req[r].user]_vars

(* C2 witness: an entry was started and a further start call on it was     *)
(* rejected.                                                               *)
C2_Witness ==
  /\ out.op = "start" /\ out.result = "InvalidTransition"
  /\ out.target \in QueueIds
  /\ queue[out.target].status = "in_progress"
  /\ queue[out.target].staff_assigned \in StaffUsers

(* C3: a complete call by staff on an existing entry that is not in        *)
(* progress returns InvalidTransition, changes no row, credits no points   *)
(* and sends no notification; only a call that read in_progress passes the *)
(* guard, and its save sets completed and time_completed = now; the call   *)
(* then reports success unless a notification raised.                      *)
C3_CompleteContract ==
  [][/\ \A r \in Requests, u \in Users, q \in QueueIds :
          CompleteRead(r, u, q) /\ IsStaff(u) =>
            IF queue[q].status = "in_progress"
            THEN req'[r].pc = "complete_save" /\ out' = NoResponse
            ELSE /\ out' = [op |-> "complete", target |-> q,
                            result |-> "InvalidTransition", sent |-> <<>>]
                 /\ queue' = queue /\ loyalty' = loyalty /\ req' = req
     /\ \A r \in Requests :
          req'[r].pc = "complete_save" => req'[r].seen.status = "in_progress"
     /\ \A r \in Requests :
          Leaves(r, "complete_save") =>
            LET q == req[r].target
            IN  /\ queue'[q].status = "completed"
                /\ queue'[q].time_completed = clock'
     /\ \A r \in Requests :
          Leaves(r, "complete_next") =>
            /\ out'.op = "complete"
            /\ out'.result = IF CompleteNextFails(r) THEN "ServerError" ELSE "ok"]_vars

(* C3 witness: a complete call on a waiting entry was rejected.            *)
C3_Witness ==
  /\ out.op = "complete" /\ out.result = "InvalidTransition"
  /\ out.target \in QueueIds
  /\ queue[out.target].status = "waiting"

(* C4: a permitted cancel call passes the guard exactly when the entry is  *)
(* waiting or in progress; on a completed, cancelled or no_show entry it   *)
(* returns InvalidTransition and leaves the entry as it is.                *)
C4_CancelContract ==
  [][\A r \in Requests, u \in Users, q \in QueueIds :
        CancelRead(r, u, q) /\ CancelAllowed(u, queue[q]) =>
          IF queue[q].status \in {"waiting", "in_progress"}
          THEN req'[r].pc = "cancel_save"
          ELSE /\ out'.op = "cancel" /\ out'.result = "InvalidTransition"
               /\ queue' = queue /\ req' = req]_vars

(* C5: every change of an entry's status follows an edge of the state      *)
(* machine.                                                                *)
C5_TransitionsFollowEdges ==
  [][\A q \in QueueIds :
        queue'[q].status # queue[q].status =>
          <<queue[q].status, queue'[q].status>> \in Edges]_vars

(* C6: of the start calls racing on one waiting entry only one reports     *)
(* success: with no PATCH in the run, a start call never reports success   *)
(* on an entry another start call has already put in progress.             *)
C6_OneStartSucceeds ==
  [][\A r \in Requests :
        Leaves(r, "start_save") /\ updates = 0 /\ out'.result = "ok" =>
          queue[req[r].target].status # "in_progress"]_vars

(* C7: of two complete calls racing on one entry in progress only one      *)
(* reports success, the booking's points are credited to the customer      *)
(* once and one service_completed notification goes out (no PATCH in the   *)
(* run): a complete call does not report success right after another       *)
(* complete call on the same entry did, and when it reports the customer   *)
(* holds no more than the points of that one booking.                      *)
C7_OneCompleteSucceeds ==
  [][\A r \in Requests :
        Leaves(r, "complete_next") /\ updates = 0 =>
          LET q == req[r].target
              done == Note(queue[q].customer, "service_completed")
          IN  /\ ~(/\ out.op = "complete" /\ out.target = q /\ out.result = "ok"
                   /\ out'.result = "ok" /\ done \in {out'.sent[i] : i \in DOMAIN out'.sent})
              /\ loyalty[queue[q].customer] <= total_points(queue[q].booking)]_vars

(* C8: a cancel that has committed is not overwritten by a racing start    *)
(* (no PATCH in the run): the save of a start call leaves a cancelled      *)
(* entry cancelled.                                                        *)
C8_CancelNotOverwritten ==
  [][\A r \in Requests :
        Leaves(r, "start_save") /\ updates = 0 =>
          LET q == req[r].target
          IN  queue[q].status = "cancelled" => queue'[q].status = "cancelled"]_vars

(* C9: a booking never has more than one queue entry, and once a confirm   *)
(* call on it has gone through Queue.objects.create it has exactly one.    *)
QueueItemsOf(b) == {q \in QueueIds : queue[q].booking = b}

C9_OneEntryPerBooking ==
  /\ \A b \in BookingIds : Cardinality(QueueItemsOf(b)) <= 1
  /\ out.op = "confirm" /\ out.result \in {"ok", "IntegrityError"} =>
       Cardinality(QueueItemsOf(out.target)) = 1

(* C9 witness: two confirm calls raced on one booking; the second create   *)
(* was refused and the booking has its one entry.                          *)
C9_Witness ==
  /\ out.op = "confirm" /\ out.result = "IntegrityError"
  /\ Cardinality(QueueItemsOf(out.target)) = 1

(* C10: a confirm call by the owner of a booking that is already confirmed *)
(* returns AlreadyConfirmed, starts nothing, and leaves the queue and the  *)
(* booking as they are.                                                    *)
C10_SecondConfirmRejected ==
  [][\A r \in Requests, u \in Users, b \in BookingIds :
        ConfirmRead(r, u, b) /\ BookingFound(b, u) /\ booking[b].is_confirmed =>
          /\ out' = [op |-> "confirm", target |-> b,
                     result |-> "AlreadyConfirmed", sent |-> <<>>]
          /\ queue' = queue /\ booking' = booking /\ req' = req]_vars

(* C10 witness: a confirm call on a booking that has its entry was         *)
(* rejected with AlreadyConfirmed.                                         *)
C10_Witness ==
  /\ out.op = "confirm" /\ out.result = "AlreadyConfirmed"
  /\ Cardinality(QueueItemsOf(out.target)) = 1
  /\ booking[out.target].is_confirmed

(* C11: confirmation is atomic: whenever a request has just returned, a    *)
(* booking is confirmed if and only if it owns a queue entry.               *)
C11_ConfirmedIffQueued ==
  out.result # "none" =>
    \A b \in BookingIds : booking[b].is_confirmed <=> HasQueueItem(b)

(* C12: a confirm call by the owner of an unconfirmed booking that has no   *)
(* line items returns EmptyBooking and starts nothing: no entry is created  *)
(* and the booking stays unconfirmed.                                       *)
C12_EmptyBookingRejected ==
  [][\A r \in Requests, u \in Users, b \in BookingIds :
        /\ ConfirmRead(r, u, b) /\ BookingFound(b, u)
        /\ ~booking[b].is_confirmed /\ Rows(b) = {}
        => /\ out'.op = "confirm" /\ out'.result = "EmptyBooking"
           /\ req' = req /\ queue' = queue /\ booking' = booking]_vars

(* C18: the step of a complete call that credits the customer raises the    *)
(* customer's balance by exactly the points of the booking, sum of          *)
(* loyalty_points x quantity over its line items, and changes no other      *)
(* balance (no PATCH in the run).                                           *)
C18_CreditIsExact ==
  [][\A r \in Requests :
        Leaves(r, "complete_credit") /\ req'[r].pc = "complete_next" /\ updates = 0 =>
          LET c == req[r].seen.customer
              b == req[r].seen.booking
          IN  /\ loyalty'[c] = loyalty[c] + total_points(b)
              /\ \A u \in Customers \ {c} : loyalty'[u] = loyalty[u]]_vars

(* C19: when a complete call has reported success, every product used by    *)
(* the services of the entry's booking has been consumed: its stock is      *)
(* lower than the initial stock by at least quantity_used x line quantity.  *)
ConsumedBy(b, p) ==
  LET rows == Rows(b)
      uses(bs) == {sp \in service_products[bs.service] : sp.product = p}
  IN  SumOver(rows,
        [bs \in rows |->
           SumOver(uses(bs), [sp \in uses(bs) |-> sp.quantity_used * bs.quantity])])

C19_CompleteConsumesStock ==
  out.op = "complete" /\ out.result = "ok" /\ out.target \in QueueIds =>
    \A p \in Products :
      LET used == ConsumedBy(queue[out.target].booking, p)
      IN  used <= InitialStock =>
            product[p].stock_quantity <= InitialStock - used

(* C20: once a complete call has saved the entry, no later step of the      *)
(* call, failing or not, changes the entry: a failure of the loyalty credit *)
(* or of a notification ends the call with an error, rolls nothing back     *)
(* and is not retried.                                                      *)
C20_FailureKeepsCompleted ==
  [][\A r \in Requests :
        req[r].pc \in {"complete_credit", "complete_next"} /\ req'[r] # req[r] =>
          LET q == req[r].target
          IN  /\ queue'[q] = queue[q]
              /\ out'.result = "ServerError" => req'[r] = Idle]_vars

(* C20 witness: a complete call ended with a server error before the        *)
(* credit; the entry is completed with its time_completed and the customer  *)
(* holds no points.                                                         *)
C20_Witness ==
  /\ out.op = "complete" /\ out.result = "ServerError"
  /\ out.target \in QueueIds
  /\ queue[out.target].status = "completed"
  /\ queue[out.target].time_completed # NoTime
  /\ loyalty[queue[out.target].customer] = 0
  /\ total_points(queue[out.target].booking) > 0

(* ------------ positions and waits as the claims define them ------------ *)
(* An entry's total service duration: duration x quantity over the line     *)
(* items of its booking.                                                    *)
LineItemsDuration(b) ==
  LET rows == Rows(b)
  IN  SumOver(rows, [bs \in rows |-> Service[bs.service].duration * bs.quantity])

Ahead(e) == {j \in ActiveIds : queue[j].time_joined < queue[e].time_joined}
Rank(e) == 1 + Cardinality(Ahead(e))
WaitAhead(e) ==
  SumOver(Ahead(e), [j \in Ahead(e) |-> LineItemsDuration(queue[j].booking)])

DistinctJoinTimes ==
  \A i, j \in ActiveIds : i # j => queue[i].time_joined # queue[j].time_joined

(* C13: with the waiting entries joined at distinct times, a position read  *)
(* for a customer who has a waiting entry succeeds and reports, for that    *)
(* entry, 1 + the number of waiting entries that joined earlier.            *)
C13_PositionIsRank ==
  out.op = "position" /\ DistinctJoinTimes /\ WaitingOf(out.user) # {} =>
    /\ out.result = "ok"
    /\ \A e \in WaitingOf(out.user) : out.position = Rank(e)

(* C14: the estimated wait a read reports for a waiting entry is the sum,   *)
(* over the waiting entries that joined earlier, of duration x quantity     *)
(* over the line items of their bookings.                                   *)
C14_WaitIsSumOfDurations ==
  out.op = "position" /\ DistinctJoinTimes /\ out.result = "ok" =>
    \A e \in WaitingOf(out.user) : out.estimated_wait_time = WaitAhead(e)

(* C15: after every step the active queue lists waiting entries that        *)
(* joined at distinct times in the order their bookings were confirmed     *)
(* (the order of creation of the entries), and an entry just created by a  *)
(* confirm at an instant no other waiting entry joined at is the last.     *)
InConfirmationOrder ==
  \A o \in ActiveOrders : \A i, j \in DOMAIN o :
    i < j /\ queue[o[i]].time_joined # queue[o[j]].time_joined => o[i] < o[j]

NewEntryIsLast ==
  LET n == Len(queue)
  IN  (\A j \in ActiveIds \ {n} : queue[j].time_joined # queue[n].time_joined) =>
        \A o \in ActiveOrders : o[Len(o)] = n

C15_ActiveQueueInConfirmationOrder ==
  [][/\ InConfirmationOrder'
     /\ Len(queue') > Len(queue) => NewEntryIsLast']_vars

(* C15 witness: three bookings were confirmed at three instants, the first  *)
(* entry has left the waiting status and the other two are waiting.        *)
C15_Witness ==
  /\ Len(queue) = 3
  /\ queue[1].status \in {"in_progress", "completed", "cancelled"}
  /\ queue[2].status = "waiting" /\ queue[3].status = "waiting"
  /\ queue[1].time_joined < queue[2].time_joined
  /\ queue[2].time_joined < queue[3].time_joined

(* C16: when a waiting entry is started or cancelled (waiting entries       *)
(* joined at distinct times), the next read for every waiting entry behind *)
(* it reports a position lower by one and a wait lower by the departed     *)
(* entry's total service duration, and the next read for every entry       *)
(* ahead of it reports the same position and wait as before.               *)
C16_ReadsFollowDeparture ==
  [][\A q \in QueueIds :
        /\ queue[q].status = "waiting"
        /\ queue'[q].status \in {"in_progress", "cancelled"}
        /\ DistinctJoinTimes
        => \A e \in ActiveIds \ {q} :
             \A resp \in QueuePositionResponses(queue[e].customer)' :
               /\ resp.result = "ok"
               /\ IF queue[q].time_joined < queue[e].time_joined
                  THEN /\ resp.position = Rank(e) - 1
                       /\ resp.estimated_wait_time =
                            WaitAhead(e) - LineItemsDuration(queue[q].booking)
                  ELSE /\ resp.position = Rank(e)
                       /\ resp.estimated_wait_time = WaitAhead(e)]_vars

(* C17: a complete call that reports success has sent a queue_next          *)
(* notification if and only if some entry is waiting when it looks, and    *)
(* then exactly one, to the customer of a waiting entry that no waiting    *)
(* entry joined before (position 1, wait 0).                               *)
C17_QueueNextToFirst ==
  [][\A r \in Requests :
        Leaves(r, "complete_next") /\ out'.result = "ok" =>
          LET nexts == {i \in DOMAIN out'.sent : out'.sent[i].kind = "queue_next"}
          IN  IF ActiveIds = {} THEN nexts = {}
              ELSE /\ Cardinality(nexts) = 1
                   /\ \E e \in ActiveIds :
                        /\ Rank(e) = 1 /\ WaitAhead(e) = 0
                        /\ \A i \in nexts : out'.sent[i].user = queue[e].customer]_vars

(* C17 witness: an entry was completed while two others were waiting, and   *)
(* queue_next went to the customer of the earlier one, who is not the      *)
(* customer of the completed entry nor of the later one.                   *)
C17_Witness ==
  /\ out.op = "complete" /\ out.result = "ok"
  /\ \E e, f \in ActiveIds :
       /\ queue[e].time_joined < queue[f].time_joined
       /\ queue[e].customer # queue[f].customer
       /\ queue[e].customer # queue[out.target].customer
       /\ Note(queue[e].customer, "queue_next") \in {out.sent[i] : i \in DOMAIN out.sent}

(* --------------------- line items and stored totals --------------------- *)
(* The totals the claims define for a set of line items: one term per      *)
(* service that has a line, unit value x quantity of that line.            *)
LineOf(rows, s) == CHOOSE bs \in rows : bs.service = s
AmountOf(rows) ==
  SumOver(Services, [s \in Services |->
    IF \E bs \in rows : bs.service = s
    THEN Service[s].price * LineOf(rows, s).quantity ELSE 0])
DurationOf(rows) ==
  SumOver(Services, [s \in Services |->
    IF \E bs \in rows : bs.service = s
    THEN Service[s].duration * LineOf(rows, s).quantity ELSE 0])

(* C21: the step that runs calculate_totals leaves the booking with         *)
(* total_amount = sum of price x quantity and total_duration = sum of      *)
(* duration x quantity over its line items, both 0 when it has none.       *)
C21_TotalsAreSums ==
  [][\A r \in Requests :
        CreateTotals(r) =>
          \A b \in BookingIds : b = req[r].target =>
            /\ booking'[b].total_amount = AmountOf(Rows(b)')
            /\ booking'[b].total_duration = DurationOf(Rows(b)')
            /\ Rows(b)' = {} =>
                 booking'[b].total_amount = 0 /\ booking'[b].total_duration = 0]_vars

(* C21 witness: a booking of one cut and two dyes was created and its       *)
(* totals were computed.                                                   *)
C21_Witness ==
  /\ out.op = "create" /\ out.result = "ok"
  /\ {[service |-> bs.service, quantity |-> bs.quantity] : bs \in Rows(out.target)}
       = {Line("cut", 1), Line("dye", 2)}
  /\ booking[out.target].total_amount =
       Service["cut"].price + 2 * Service["dye"].price
  /\ booking[out.target].total_duration =
       Service["cut"].duration + 2 * Service["dye"].duration

(* C22: whenever a request reads a booking, the totals it is shown are the  *)
(* sums over the line items it is shown.                                   *)
C22_NoStaleTotalsObserved ==
  out.op = "detail" /\ out.result = "ok" =>
    /\ out.total_amount = AmountOf(out.booking_services)
    /\ out.total_duration = DurationOf(out.booking_services)

(* C24: a request that posts a line with quantity < 1 is answered           *)
(* InvalidQuantity by its first step, which creates no booking and no      *)
(* line item.                                                              *)
HasInvalidQuantity(lines) == \E i \in DOMAIN lines : lines[i].quantity < 1

C24_InvalidQuantityRejected ==
  [][\A r \in Requests, u \in Customers, lines \in CreateInputs :
        CreateInsertBooking(r, u, lines) /\ HasInvalidQuantity(lines) =>
          /\ out'.op = "create" /\ out'.result = "InvalidQuantity"
          /\ booking' = booking /\ bookingservice' = bookingservice]_vars

(* C25: inserting a line for a service the booking already has fails and    *)
(* changes no row; after every step a booking has at most one line per     *)
(* service; and no step of a create request changes a booking, or the      *)
(* lines of a booking, other than its own.                                 *)
OneLinePerService ==
  \A x, y \in bookingservice :
    x.booking = y.booking /\ x.service = y.service => x = y

C25_DuplicateLineRejected ==
  [][/\ OneLinePerService'
     /\ \A r \in Requests :
          /\ CreateInsertLine(r)
          /\ \E bs \in Rows(req[r].target) : bs.service = Head(req[r].data).service
          => /\ out'.op = "create" /\ out'.result = "IntegrityError"
             /\ booking' = booking /\ bookingservice' = bookingservice
     /\ \A r \in Requests :
          req[r].op = "create" /\ req'[r] # req[r] =>
            \A b \in BookingIds \ {req[r].target} :
              booking'[b] = booking[b] /\ Rows(b)' = Rows(b)]_vars

(* C25 witness: the second line of a request named the service of its       *)
(* first line and was refused, while an earlier booking keeps its two      *)
(* lines and its totals.                                                   *)
C25_Witness ==
  /\ out.op = "create" /\ out.result = "IntegrityError"
  /\ Cardinality(Rows(out.target)) = 1
  /\ \E b \in BookingIds \ {out.target} :
       /\ Cardinality(Rows(b)) = 2
       /\ booking[b].total_amount = AmountOf(Rows(b))
       /\ booking[b].total_amount > 0

(* C23: the entry a confirm creates has estimated_start_time = the instant  *)
(* of the confirmation (an instant between the call's reading of the clock *)
(* and the entry's time_joined) + the sum, over the entries waiting then,  *)
(* of duration x quantity over the line items of their bookings.           *)
C23_EstimatedStartIsQueueTotal ==
  [][Len(queue') > Len(queue) =>
       \E t \in clock..clock' :
         queue'[Len(queue')].estimated_start_time =
           t + SumOver(ActiveIds, [j \in ActiveIds |-> LineItemsDuration(queue[j].booking)])]_vars

(* ---------------------------- notifications ----------------------------- *)
NotifyingOps == {"confirm", "start", "complete", "cancel"}
Rejections ==
  {"NotFound", "PermissionDenied", "InvalidTransition", "AlreadyConfirmed"}

KindOf(op) ==
  CASE op = "confirm" -> "booking_confirmed"
    [] op = "start" -> "service_started"
    [] op = "complete" -> "service_completed"
    [] op = "cancel" -> "booking_cancelled"

CustomerOf(resp) ==
  IF resp.op = "confirm" THEN booking[resp.target].customer
  ELSE queue[resp.target].customer

(* The notifications of the operation's kind in a response, and those of   *)
(* them addressed to the customer of the entry.                            *)
OfKind(resp) == {i \in DOMAIN resp.sent : resp.sent[i].kind = KindOf(resp.op)}
ToCustomer(resp) == {i \in OfKind(resp) : resp.sent[i].user = CustomerOf(resp)}

(* C26 as stated: every confirm, start, complete and cancel that reports    *)
(* success sent exactly one notification of its kind, to the entry's       *)
(* customer, whoever the caller; a rejected call sent nothing.             *)
C26_EverySuccessNotifies ==
  out.op \in NotifyingOps =>
    /\ out.result = "ok" =>
         Cardinality(OfKind(out)) = 1 /\ ToCustomer(out) = OfKind(out)
    /\ out.result \in Rejections => out.sent = <<>>

(* C26 amended: every confirm, start and complete that reports success,    *)
(* and every successful cancel whose caller is not the entry's customer,   *)
(* sent exactly one notification of its kind, to the entry's customer; a   *)
(* successful cancel by the entry's customer sent none; a rejected call    *)
(* sent nothing.                                                           *)
C26_SuccessNotifiesUnlessOwnCancel ==
  [][/\ \A r \in Requests, u \in Users :
          /\ req[r].op \in NotifyingOps /\ req[r].user = u
          /\ req'[r] = Idle /\ out'.result = "ok"
          => /\ ToCustomer(out)' = OfKind(out)'
             /\ Cardinality(OfKind(out)') =
                  IF out'.op = "cancel" /\ u = CustomerOf(out)' THEN 0 ELSE 1
     /\ out'.op \in NotifyingOps /\ out'.result \in Rejections => out'.sent = <<>>]_vars

(* C26 witness: an entry was cancelled by its own customer and the call     *)
(* reported success without a notification.                                *)
C26_Witness ==
  /\ out.op = "cancel" /\ out.result = "ok" /\ out.sent = <<>>
  /\ queue[out.target].status = "cancelled"

(* C27: a reduce_stock call whose quantity exceeds the stock of the row it   *)
(* was called on returns False and writes nothing; otherwise it returns    *)
(* True and saves the row with stock_quantity lowered and usage_count      *)
(* raised by the quantity; and after every step of any run of reduce_stock *)
(* and add_stock calls the stored stock_quantity is not negative.          *)
C27_StockContract ==
  [][/\ \A r \in Requests, p \in Products, quantity \in Quantities :
          /\ ReduceSave(r)
          /\ req[r].data.product = p /\ req[r].data.quantity = quantity
          => IF quantity > req[r].seen.stock_quantity
             THEN out'.result = "False" /\ product' = product
             ELSE /\ out'.result = "True"
                  /\ product'[p].stock_quantity = req[r].seen.stock_quantity - quantity
                  /\ product'[p].usage_count = req[r].seen.usage_count + quantity
     /\ \A p \in Products : product'[p].stock_quantity >= 0]_vars

(* C27 witness: stock was consumed and added, and a reduce_stock of more    *)
(* than the stock that is left was refused.                                *)
C27_Witness ==
  /\ out.op = "reduce_stock" /\ out.result = "False"
  /\ \E p \in Products :
       /\ product[p].usage_count > 0
       /\ product[p].stock_quantity < MaxQuantity
       /\ product[p].stock_quantity + product[p].usage_count > InitialStock

(* ------------------------------- reads ---------------------------------- *)
WaitingEntries == {i \in 1..Len(queue) : queue[i].status = "waiting"}
WaitingEntriesOf(u) == {i \in WaitingEntries : queue[i].customer = u}

C30_ActiveOrderIsDetermined ==
  \A o1, o2 \in ActiveOrders : o1 = o2

(* C31: a calculate_totals call changes no line item, no queue entry and no *)
(* booking but its own, of which it changes only the two totals; a second  *)
(* call right after the first, the line items being the same, changes      *)
(* nothing at all.                                                         *)
C31_CalculateTotalsIdempotent ==
  [][\A b \in BookingIds :
        CalculateTotals(1, b) =>
          /\ bookingservice' = bookingservice /\ queue' = queue
          /\ \A c \in BookingIds \ {b} : booking'[c] = booking[c]
          /\ booking'[b].is_confirmed = booking[b].is_confirmed
          /\ booking'[b].customer = booking[b].customer
          /\ out.op = "calculate_totals" /\ out.target = b => booking' = booking]_vars

(* C31 witness: the totals of a confirmed booking with a queue entry, left  *)
(* at 0 by a create that failed after its first line, were recomputed.     *)
C31_Witness ==
  /\ out.op = "calculate_totals"
  /\ booking[out.target].is_confirmed
  /\ \E q \in QueueIds : queue[q].booking = out.target
  /\ Cardinality(Rows(out.target)) = 1
  /\ booking[out.target].total_amount = Service["cut"].price
  /\ booking[out.target].total_duration = Service["cut"].duration

(* C32: a start or complete by staff, or a cancel, on an id that names no   *)
(* entry is answered NotFound; NotFound is answered only for such an id    *)
(* and InvalidTransition only for an existing entry; and a call answered   *)
(* either way changes no row, no balance and no stock and sends nothing.   *)
C32_NotFoundIsDistinct ==
  [][/\ \A r \in Requests, u \in Users, q \in Targets :
          /\ q \notin QueueIds
          /\ \/ IsStaff(u) /\ (StartRead(r, u, q) \/ CompleteRead(r, u, q))
             \/ CancelRead(r, u, q)
          => out'.result = "NotFound"
     /\ /\ out'.op \in {"start", "complete", "cancel"}
        /\ out'.result \in {"NotFound", "InvalidTransition"}
        => /\ out'.result = "NotFound" <=> out'.target \notin QueueIds
           /\ out'.sent = <<>>
           /\ req' = req
           /\ UNCHANGED <<booking, bookingservice, queue, loyalty, product>>]_vars

(* C32 witness: a cancel was answered NotFound while no entry existed.      *)
C32_Witness ==
  /\ out.op = "cancel" /\ out.result = "NotFound"
  /\ out.target \notin QueueIds
  /\ Len(booking) = 1

(* C33: every request that has begun a confirm, start, complete, cancel or  *)
(* update returns, whatever the other requests do.                         *)
C33_EveryCallReturns ==
  \A r \in Requests : (req[r].pc # "idle") ~> (req[r].pc = "idle")

(* C33 witness: two requests are in flight at once on the same entry.       *)
C33_Witness ==
  /\ req[1].pc = "complete_credit" /\ req[2].pc = "cancel_save"
  /\ req[1].target = req[2].target

(* C34: no step changes the estimated_start_time of an existing entry: not  *)
(* its own start, complete or cancel, and not the confirm, start, complete *)
(* or cancel of another entry.                                             *)
C34_EstimatedStartIsSnapshot ==
  [][\A q \in QueueIds :
        queue'[q].estimated_start_time = queue[q].estimated_start_time]_vars

(* C34 witness: an entry that joined behind a waiting one still carries the *)
(* estimate it was given, after the entry ahead was cancelled, it was      *)
(* served itself and a third entry joined.                                 *)
C34_Witness ==
  /\ Len(queue) = 3
  /\ queue[1].status = "cancelled"
  /\ queue[2].status = "completed"
  /\ queue[2].estimated_start_time >
       queue[2].time_joined + total_service_duration(queue[2]) - 1
  /\ queue[3].status = "waiting"

(* C35: while no complete call is in flight, every customer's balance is    *)
(* the sum, over the customer's completed entries, of the points of the    *)
(* entry's booking (the initial balance being 0).                          *)
CompletedOf(c) ==
  {q \in QueueIds : queue[q].customer = c /\ queue[q].status = "completed"}

C35_LoyaltyConserved ==
  (\A r \in Requests : req[r].op # "complete") =>
    \A c \in Customers :
      loyalty[c] =
        SumOver(CompletedOf(c), [q \in CompletedOf(c) |-> total_points(queue[q].booking)])

(* C36: the timestamps of every entry agree with its status.               *)
C36_TimestampsMatchStatus ==
  \A q \in QueueIds :
    /\ queue[q].status = "waiting" =>
         queue[q].time_started = NoTime /\ queue[q].time_completed = NoTime
    /\ queue[q].status = "in_progress" =>
         queue[q].time_started # NoTime /\ queue[q].time_completed = NoTime
    /\ queue[q].status = "completed" =>
         /\ queue[q].time_started # NoTime /\ queue[q].time_completed # NoTime
         /\ queue[q].time_started <= queue[q].time_completed

(* C37: no position read fails because the customer has several waiting     *)
(* entries.                                                                *)
C37_ReadsNeverFail ==
  \A u \in Customers : \A resp \in QueuePositionResponses(u) :
    resp.result \in {"ok", "NotFound"}

(* C38: a start, complete or update by a user who is not staff or admin,    *)
(* and a cancel by a user who is neither the entry's customer nor staff or *)
(* admin, is answered PermissionDenied and changes no row, balance or      *)
(* stock and sends nothing; and a request runs a confirm, and a confirm    *)
(* reports success, only for the customer of the booking.                  *)
Denied(resp) ==
  /\ resp.result = "PermissionDenied" /\ resp.sent = <<>>
  /\ req' = req
  /\ UNCHANGED <<booking, bookingservice, queue, loyalty, product>>

C38_GuardsPrecedeMutation ==
  [][/\ \A r \in Requests, u \in Users, q \in Targets :
          /\ ~IsStaff(u)
          /\ \/ StartRead(r, u, q) \/ CompleteRead(r, u, q)
             \/ \E d \in UpdateInputs : UpdateRead(r, u, q, d)
          => Denied(out')
     /\ \A r \in Requests, u \in Users, q \in QueueIds :
          CancelRead(r, u, q) /\ u # queue[q].customer /\ ~IsStaff(u) => Denied(out')
     /\ \A r \in Requests :
          req'[r].op = "confirm" => req'[r].user = booking'[req'[r].target].customer
     /\ \A r \in Requests :
          req[r].op = "confirm" /\ req'[r] = Idle /\ out'.result = "ok" =>
            req[r].user = booking[req[r].target].customer]_vars

(* C38 witness: a customer's cancel of another customer's waiting entry     *)
(* was denied and the entry is still waiting.                              *)
C38_Witness ==
  /\ out.op = "cancel" /\ out.result = "PermissionDenied"
  /\ queue[out.target].customer = "c1"
  /\ queue[out.target].status = "waiting"

(* C39: every reduce_stock call that reports success lowers the stored      *)
(* stock_quantity by its quantity and raises the stored usage_count by it, *)
(* so that the stock that is left is the initial stock minus the           *)
(* quantities of the successful calls.                                     *)
C39_StockConserved ==
  [][\A r \in Requests, p \in Products, quantity \in Quantities :
        /\ ReduceSave(r)
        /\ req[r].data.product = p /\ req[r].data.quantity = quantity
        /\ out'.result = "True"
        => /\ product'[p].stock_quantity = product[p].stock_quantity - quantity
           /\ product'[p].usage_count = product[p].usage_count + quantity]_vars

====
